---- MODULE Spec2Model ----
(***************************************************************************)
(* Verification model of the VRL Logistics pickup application (vrlapp):    *)
(* the weight-charge calculator, the invoice builder, and the pickup       *)
(* request status workflow with its audit history and notifications.       *)
(*                                                                         *)
(* Text is modelled as a tuple of one-character strings.  Money and        *)
(* weights are exact rationals [n, d] in lowest terms (d > 0); a Decimal   *)
(* column with two decimal places holds an integer number of hundredths.   *)
(***************************************************************************)
EXTENDS Integers, Sequences, FiniteSets, TLC

(***************************************************************************)
(* Exact rational arithmetic                                               *)
(***************************************************************************)
RECURSIVE GCD(_, _)
GCD(a, b) == IF b = 0 THEN a ELSE GCD(b, a % b)

Rat(n, d) == LET g == GCD(n, d) IN [n |-> n \div g, d |-> d \div g]

RInt(k) == [n |-> k, d |-> 1]

RAdd(p, q) ==
    LET g == GCD(p.d, q.d)
    IN  Rat(p.n * (q.d \div g) + q.n * (p.d \div g), (p.d \div g) * q.d)

RMul(p, q) ==
    LET a == Rat(p.n, q.d)
        b == Rat(q.n, p.d)
    IN  [n |-> a.n * b.n, d |-> a.d * b.d]

RDiv(p, q) == RMul(p, [n |-> q.d, d |-> q.n])

RLeq(p, q) == p.n * q.d <= q.n * p.d

RMin(p, q) == IF RLeq(p, q) THEN p ELSE q

(***************************************************************************)
(* Text helpers (str.lower, str.strip, substring test)                     *)
(***************************************************************************)
DigitChars == <<"0", "1", "2", "3", "4", "5", "6", "7", "8", "9">>

IsDigit(c) == \E i \in 1..10 : DigitChars[i] = c

DigitVal(c) == (CHOOSE i \in 1..10 : DigitChars[i] = c) - 1

UpperChars == <<"A", "B", "C", "D", "E", "F", "G", "H", "I", "J", "K", "L", "M",
                "N", "O", "P", "Q", "R", "S", "T", "U", "V", "W", "X", "Y", "Z">>

LowerChars == <<"a", "b", "c", "d", "e", "f", "g", "h", "i", "j", "k", "l", "m",
                "n", "o", "p", "q", "r", "s", "t", "u", "v", "w", "x", "y", "z">>

LowerChar(c) ==
    IF \E i \in 1..26 : UpperChars[i] = c
    THEN LowerChars[CHOOSE i \in 1..26 : UpperChars[i] = c]
    ELSE c

Lower(s) == [i \in 1..Len(s) |-> LowerChar(s[i])]

RECURSIVE LStrip(_)
LStrip(s) == IF s # <<>> /\ Head(s) = " " THEN LStrip(Tail(s)) ELSE s

RECURSIVE RStrip(_)
RStrip(s) ==
    IF s # <<>> /\ s[Len(s)] = " " THEN RStrip(SubSeq(s, 1, Len(s) - 1)) ELSE s

Strip(s) == RStrip(LStrip(s))

Contains(s, t) ==
    \E i \in 1..(Len(s) - Len(t) + 1) : SubSeq(s, i, i + Len(t) - 1) = t

(***************************************************************************)
(* re.search for digits, an optional dot, more digits: the leftmost,       *)
(* greedy numeric token.                                                   *)
(***************************************************************************)
HasNumber(s) == \E i \in 1..Len(s) : IsDigit(s[i])

FirstDigit(s) == CHOOSE i \in 1..Len(s) :
                    IsDigit(s[i]) /\ \A j \in 1..(i - 1) : ~IsDigit(s[j])

\* index of the last character of the maximal digit run starting at i
\* (i - 1 when s[i] is not a digit)
RECURSIVE DigitRunEnd(_, _)
DigitRunEnd(s, i) ==
    IF i <= Len(s) /\ IsDigit(s[i]) THEN DigitRunEnd(s, i + 1) ELSE i - 1

NumberToken(s) ==
    LET a == FirstDigit(s)
        b == DigitRunEnd(s, a)
        dot == b + 1 <= Len(s) /\ s[b + 1] = "."
        c == IF dot THEN DigitRunEnd(s, b + 2) ELSE b
    IN  [whole |-> SubSeq(s, a, b),
         frac  |-> IF dot THEN SubSeq(s, b + 2, c) ELSE <<>>]

RECURSIVE DigitsValue(_)
DigitsValue(ds) ==
    IF ds = <<>> THEN 0
    ELSE 10 * DigitsValue(SubSeq(ds, 1, Len(ds) - 1)) + DigitVal(ds[Len(ds)])

RECURSIVE Pow10(_)
Pow10(k) == IF k = 0 THEN 1 ELSE 10 * Pow10(k - 1)

\* float(match.group(1))
TokenValue(tok) ==
    Rat(DigitsValue(tok.whole) * Pow10(Len(tok.frac)) + DigitsValue(tok.frac),
        Pow10(Len(tok.frac)))

(***************************************************************************)
(* invoice_utils.calculate_weight_charge                                   *)
(***************************************************************************)
DefaultCharge == 50
ChargeCap == 200
UnitRate == 20
UnitGrams == 500
GramsPerKg == 1000
CeilingOffset == 499

\* grams denoted by the text, as the function derives them
Grams(weight_str) ==
    LET s == Strip(Lower(weight_str))
        v == TokenValue(NumberToken(s))
    IN  IF Contains(s, <<"k", "g">>) THEN RMul(v, RInt(GramsPerKg)) ELSE v

\* units = (weight_value + 499) / 500 : true division
UnitsWithoutOffset(grams) == RDiv(grams, RInt(UnitGrams))

Units(grams) == RDiv(RAdd(grams, RInt(CeilingOffset)), RInt(UnitGrams))

UncappedCharge(grams) == RMul(Units(grams), RInt(UnitRate))

CapChargeNoCap(charge) == charge

CapCharge(charge) == RMin(charge, RInt(ChargeCap))

\* values that are not text: None and a number
NoneValue == <<"<None>">>

NumberValue == <<"<25>">>

NonStrings == {NoneValue, NumberValue}

\* weight_str.lower() exists only on text; on anything else the attribute
\* lookup raises and the except branch runs
IsString(value) == value \notin NonStrings

\* return of the no-match branch
NoMatchResult == RInt(DefaultCharge)

\* return of the except branch
ExceptResultZero == RInt(0)

ExceptResult == RInt(DefaultCharge)

calculate_weight_charge(weight_str) ==
    IF ~IsString(weight_str) THEN ExceptResult
    ELSE LET s == Strip(Lower(weight_str))
         IN  IF ~HasNumber(s) THEN NoMatchResult
             ELSE CapCharge(UncappedCharge(Grams(weight_str)))

(***************************************************************************)
(* The tariff as documented: 20 per 500 g or part thereof, capped at 200.  *)
(* Used only to state properties.                                          *)
(***************************************************************************)
Ceil(q) == (q.n + q.d - 1) \div q.d

Tariff(grams) ==
    LET t == Ceil(RDiv(grams, RInt(500))) * 20
    IN  IF t <= 200 THEN t ELSE 200

(***************************************************************************)
(* Weight texts                                                            *)
(***************************************************************************)
RECURSIVE Numeral(_)
Numeral(k) ==
    IF k < 10 THEN <<DigitChars[k + 1]>>
    ELSE Numeral(k \div 10) \o <<DigitChars[(k % 10) + 1]>>

WholeNumbers == {0, 1, 2, 3, 4, 5, 9, 10, 250, 499, 500, 501, 750, 1000, 1500,
                 2000, 2500, 4500, 4501, 4502, 5000, 5001}

FracTexts == {<<>>, <<".">>, <<".", "5">>, <<".", "3">>, <<".", "2", "5">>}

UnitTexts == {<<>>, <<"g">>, <<"k", "g">>, <<" ", "k", "g">>, <<"K", "G">>,
              <<" ", "g", "r", "a", "m", "s", " ">>}

NumericTexts ==
    {Numeral(k) \o f \o u : k \in WholeNumbers, f \in FracTexts, u \in UnitTexts}

NotANumber == <<"n", "o", "t", " ", "a", " ", "n", "u", "m", "b", "e", "r">>

NonNumericTexts == {<<>>, NotANumber, <<"k", "g">>, <<" ">>, <<".">>}

WeightTexts == NumericTexts \cup NonNumericTexts

\* everything the calculator is called with
WeightValues == WeightTexts \cup NonStrings

(***************************************************************************)
(* Bounds of the model                                                     *)
(***************************************************************************)
MaxRequests == 2
MaxOps == 3
MaxDay == 2
MaxRaceOps == 3
MaxNumberOps == 3
MaxOfficeOps == 2
MaxNavOps == 3
MaxVerifyOps == 4
MaxTokens == 2
MaxHour == 25

ReqIds == 1..MaxRequests

Staff == {"admin1", "admin2"}

\* authenticated users without the staff flag
Customers == {"cust1"}

Users == Staff \cup Customers

\* handlers that run one after another are issued from one staff session and
\* one customer session
SerialStaff == {"admin1"}

SerialUsers == SerialStaff \cup Customers

\* request.user.is_staff
is_staff_any(u) == TRUE

is_staff(u) == u \in Staff

Text25kg == <<"2", ".", "5", " ", "k", "g">>
Text03g == <<"0", ".", "3", "g">>

\* weight texts customers submit in the workflow model
SubmittedWeights == {Text25kg, Text03g}

\* weight texts of the requests on file when invoices are numbered
FiledWeights == {Text25kg, NotANumber}

NullText == "<NULL>"

\* admin_notes posted with a dashboard accept ('' when the field is empty)
AcceptNotes == {"", "call before pickup"}

\* rejection_reason posted with a dashboard reject ('Not specified' when absent)
RejectReasons == {"Not specified", "outside service area"}

\* values a staff member types into the invoice change form (hundredths)
EditBase == {10000, 10025}
EditWeight == {4000}
EditPct == {1800, 1250}

(***************************************************************************)
(* Decimal columns: DecimalField(decimal_places=2) stores hundredths.      *)
(* Django's number formatting quantizes with the decimal module's default *)
(* rounding, half-even.                                                    *)
(***************************************************************************)
RoundingMode == "half_even"

RoundDiv(n, d, rmode) ==
    LET q == n \div d
        r == n % d
    IN  IF 2 * r < d THEN q
        ELSE IF 2 * r > d THEN q + 1
        ELSE IF rmode = "half_up" THEN q + 1
        ELSE IF q % 2 = 0 THEN q ELSE q + 1

\* number of hundredths stored for the value q
Quantize(q, rmode) ==
    LET c == RMul(q, RInt(100)) IN RoundDiv(c.n, c.d, rmode)

\* the value read back from a stored number of hundredths
FromHundredths(c) == Rat(c, 100)

(***************************************************************************)
(* models.Invoice                                                          *)
(***************************************************************************)
BaseCharge == 100
DefaultTaxPercentage == 18

NoNumber == [day |-> 0, seq |-> 0]

NoInvoice ==
    [id |-> 0, pickup_request |-> 0, invoice_number |-> NoNumber,
     base_charge |-> RInt(0), weight_charge |-> RInt(0),
     tax_percentage |-> RInt(0), tax_amount |-> RInt(0),
     total_amount |-> RInt(0)]

\* Invoice.calculate_totals on an in-memory invoice
calculate_totals_skipped(inv) == inv

calculate_totals(inv) ==
    LET subtotal == RAdd(inv.base_charge, inv.weight_charge)
        tax == RDiv(RMul(subtotal, inv.tax_percentage), RInt(100))
    IN  [inv EXCEPT !.tax_amount = tax, !.total_amount = RAdd(subtotal, tax)]

\* Invoice.objects.filter(invoice_number__startswith='INV-<today>').count()
CountAllDays(rows, day) == Len(rows)

CountForDay(rows, day) ==
    Cardinality({i \in DOMAIN rows : rows[i].invoice_number.day = day})

\* Invoice.save up to the database write: number if missing, then totals
Invoice_save_from_zero(inv, rows, day) ==
    LET numbered ==
            IF inv.invoice_number = NoNumber
            THEN [inv EXCEPT !.invoice_number =
                                [day |-> day, seq |-> CountForDay(rows, day)]]
            ELSE inv
    IN  calculate_totals(numbered)

Invoice_save(inv, rows, day) ==
    LET numbered ==
            IF inv.invoice_number = NoNumber
            THEN [inv EXCEPT !.invoice_number =
                                [day |-> day, seq |-> CountForDay(rows, day) + 1]]
            ELSE inv
    IN  calculate_totals(numbered)

\* the row written for an in-memory invoice
StoredRow(inv, rmode) ==
    [id |-> inv.id, pickup_request |-> inv.pickup_request,
     invoice_number |-> inv.invoice_number,
     base_charge |-> Quantize(inv.base_charge, rmode),
     weight_charge |-> Quantize(inv.weight_charge, rmode),
     tax_percentage |-> Quantize(inv.tax_percentage, rmode),
     tax_amount |-> Quantize(inv.tax_amount, rmode),
     total_amount |-> Quantize(inv.total_amount, rmode)]

\* the in-memory invoice loaded from a row
LoadedInvoice(row) ==
    [id |-> row.id, pickup_request |-> row.pickup_request,
     invoice_number |-> row.invoice_number,
     base_charge |-> FromHundredths(row.base_charge),
     weight_charge |-> FromHundredths(row.weight_charge),
     tax_percentage |-> FromHundredths(row.tax_percentage),
     tax_amount |-> FromHundredths(row.tax_amount),
     total_amount |-> FromHundredths(row.total_amount)]

\* the unsaved invoice get_or_create builds from its defaults
NewInvoice(r, weight_text) ==
    [NoInvoice EXCEPT !.pickup_request = r,
                      !.base_charge = RInt(BaseCharge),
                      !.weight_charge = calculate_weight_charge(weight_text),
                      !.tax_percentage = RInt(DefaultTaxPercentage)]

RowsFor(rows, r) == {i \in DOMAIN rows : rows[i].pickup_request = r}

\* OneToOneField: at most one invoice row per pickup request
PickupTakenUnchecked(rows, r) == FALSE

PickupTaken(rows, r) == RowsFor(rows, r) # {}

\* unique=True on invoice_number
NumberTakenUnchecked(rows, num) == FALSE

NumberTaken(rows, num) == \E i \in DOMAIN rows : rows[i].invoice_number = num

NextInvoiceId(rows) ==
    IF rows = <<>> THEN 1
    ELSE 1 + (CHOOSE m \in {rows[i].id : i \in DOMAIN rows} :
                 \A i \in DOMAIN rows : rows[i].id <= m)

\* UPDATE of the row with the invoice's primary key
UpdatedRows(rows, inv, rmode) ==
    [i \in DOMAIN rows |->
        IF rows[i].id = inv.id THEN StoredRow(inv, rmode) ELSE rows[i]]

(***************************************************************************)
(* models.PickupRequest and models.RequestStatusHistory                    *)
(***************************************************************************)
NoPickup ==
    [exists |-> FALSE, parcel_weight |-> <<>>, status |-> "pending",
     reviewed_at |-> 0, completed_at |-> 0, admin_notes |-> NullText]

NewPickup(weight_text) ==
    [NoPickup EXCEPT !.exists = TRUE, !.parcel_weight = weight_text]

TargetStatus(op) ==
    CASE op = "accept" -> "accepted"
      [] op = "reject" -> "rejected"
      [] op = "complete" -> "completed"
      [] OTHER -> "pending"

\* the text stored in the history entry's notes
HistoryNotes(op, via, notes) ==
    CASE op = "accept" /\ via = "dashboard" -> notes
      [] op = "accept" /\ via = "button" -> "Accepted via admin panel button"
      [] op = "accept" /\ via = "bulk" -> "Accepted via admin bulk action"
      [] op = "reject" /\ via = "dashboard" -> notes
      [] op = "reject" /\ via = "button" -> "Rejected via admin panel button"
      [] op = "reject" /\ via = "bulk" -> "Rejected via admin bulk action"
      [] op = "complete" /\ via = "dashboard" -> "Marked as completed"
      [] op = "complete" /\ via = "button" ->
            "Marked as completed via admin panel button"
      [] OTHER -> "Marked as completed via admin bulk action"

\* the assignments a handler makes to its in-memory pickup before save()
AssignedWithoutReason(op, via, pickup, notes, now) ==
    CASE op = "accept" -> [pickup EXCEPT !.status = "accepted", !.reviewed_at = now]
      [] op = "reject" -> [pickup EXCEPT !.status = "rejected", !.reviewed_at = now]
      [] op = "complete" ->
            [pickup EXCEPT !.status = "completed", !.completed_at = now]
      [] OTHER -> pickup

AssignedWithoutCompletedAt(op, via, pickup, notes, now) ==
    CASE op = "accept" ->
            [pickup EXCEPT !.status = "accepted", !.reviewed_at = now,
                           !.admin_notes =
                               IF via = "dashboard" /\ notes # ""
                               THEN notes ELSE @]
      [] op = "reject" ->
            [pickup EXCEPT !.status = "rejected", !.reviewed_at = now,
                           !.admin_notes = HistoryNotes(op, via, notes)]
      [] op = "complete" ->
            [pickup EXCEPT !.status = "completed", !.reviewed_at = now]
      [] OTHER -> pickup

Assigned(op, via, pickup, notes, now) ==
    CASE op = "accept" ->
            [pickup EXCEPT !.status = "accepted", !.reviewed_at = now,
                           !.admin_notes =
                               IF via = "dashboard" /\ notes # ""
                               THEN notes ELSE @]
      [] op = "reject" ->
            [pickup EXCEPT !.status = "rejected", !.reviewed_at = now,
                           !.admin_notes = HistoryNotes(op, via, notes)]
      [] op = "complete" ->
            [pickup EXCEPT !.status = "completed", !.completed_at = now]
      [] OTHER -> pickup

\* old_status = pickup.status, taken before the assignments
CapturedAfterAssignment(op, pickup) == TargetStatus(op)

OldStatus(op, pickup) == pickup.status

\* the flash message of the accept views
AcceptMessageAsError(email_sent) == IF email_sent THEN "success" ELSE "error"

AcceptMessage(email_sent) == IF email_sent THEN "success" ELSE "warning"

\* the flash message after a rejection
RejectMessage(via, ok) ==
    IF via = "dashboard" \/ ok THEN "success" ELSE "warning"

(***************************************************************************)
(* models.CustomerProfile and models.EmailVerification                     *)
(***************************************************************************)
NoProfile == [exists |-> FALSE, email_verified |-> FALSE]

\* CustomerProfile.objects.create(...): email_verified takes the field's
\* default unless the caller passes a value
NewProfile(flag) == [exists |-> TRUE, email_verified |-> flag]

EmailVerifiedDefault == TRUE

\* is_token_expired(hours=24)
TokenHours == 24

\* verified_at is NULL until verify() succeeds
NullTime == 0 - 1

NewToken(u, now) ==
    [user |-> u, created_at |-> now, verified_at |-> NullTime,
     is_verified |-> FALSE]

\* timezone.now() > created_at + timedelta(hours=hours)
is_token_expired_on_the_hour(token, now) == now >= token.created_at + TokenHours

is_token_expired(token, now) == now > token.created_at + TokenHours

NoVerify == [token |-> 0, result |-> FALSE, at |-> 0]

(***************************************************************************)
(* What the handlers hand to the mail transport and the invoice builder.   *)
(* An entry is one call; outcome is "sent" or "failed" for a message given *)
(* to the transport, "skipped" for an alert without recipients, "called"   *)
(* for an invoice build.                                                    *)
(***************************************************************************)
LogEntry(what, r, by, attachment, outcome) ==
    [what |-> what, pickup_request |-> r, by |-> by,
     attachment |-> attachment, outcome |-> outcome]

VARIABLES weight_in, charge_out, calc_pc,
          pickups, history, invoices, today, clock, proc, mode,
          profiles, tokens, hour, last_verify, log, session

chargeVars == <<weight_in, charge_out, calc_pc>>

dbVars == <<pickups, history, invoices>>

verifyVars == <<profiles, tokens, hour, last_verify, session>>

vars == <<weight_in, charge_out, calc_pc,
          pickups, history, invoices, today, clock, proc, mode,
          profiles, tokens, hour, last_verify, log, session>>


(***************************************************************************)
(* A staff session runs one handler at a time; proc[w] holds the handler's *)
(* position and its local variables.                                       *)
(***************************************************************************)
IdleProc ==
    [pc |-> "idle", op |-> "none", via |-> "none", queue |-> <<>>,
     notes |-> "", old_status |-> "", inv |-> NoInvoice, created |-> FALSE,
     email_sent |-> FALSE, count |-> 0, email_count |-> 0,
     message |-> "none", mails |-> <<>>, page |-> "none"]

RECURSIVE Descending(_)
Descending(S) ==
    IF S = {} THEN <<>>
    ELSE LET m == CHOOSE x \in S : \A y \in S : y <= x
         IN  <<m>> \o Descending(S \ {m})

AllIdle == \A w \in Users : proc[w].pc = "idle"

\* the handlers behind login_required and staff_member_required run for
\* users who are logged in
LoggedIn == [u \in Users |-> TRUE]

\* the modes in which the handlers of different sessions interleave
Interleaving == {"interleaved", "office"}

\* the number of events a behaviour may contain
Budget ==
    CASE mode = "serial" -> MaxOps
      [] mode = "interleaved" -> MaxRaceOps
      [] mode = "numbers" -> MaxNumberOps
      [] mode = "office" -> MaxOfficeOps
      [] mode = "navigation" -> MaxNavOps
      [] OTHER -> MaxVerifyOps

\* the log a handler starts with: the entries of the handlers still running
LogAtBegin ==
    LET Running(m) == proc[m.by].pc # "idle" IN SelectSeq(log, Running)

\* the log with one more call; it is kept where handlers run one after another
Noted(entry) == IF mode \in Interleaving THEN log ELSE Append(log, entry)

\* in serial mode a handler runs to its end before the next one starts
Solo(w) == mode \notin Interleaving => \A v \in Users \ {w} : proc[v].pc = "idle"

Quiet == mode \notin Interleaving => AllIdle

Init ==
    /\ weight_in = <<>>
    /\ charge_out = RInt(0)
    /\ calc_pc = "off"
    /\ pickups = [r \in ReqIds |-> NoPickup]
    /\ history = <<>>
    /\ invoices = <<>>
    /\ today = 1
    /\ clock = 0
    /\ proc = [w \in Users |-> IdleProc]
    /\ mode = "serial"
    /\ profiles = [u \in Customers |-> NewProfile(EmailVerifiedDefault)]
    /\ tokens = <<>>
    /\ hour = 0
    /\ last_verify = NoVerify
    /\ log = <<>>
    /\ session = LoggedIn

InitRace ==
    /\ weight_in = <<>>
    /\ charge_out = RInt(0)
    /\ calc_pc = "off"
    /\ pickups = [r \in ReqIds |-> NoPickup]
    /\ history = <<>>
    /\ invoices = <<>>
    /\ today = 1
    /\ clock = 0
    /\ proc = [w \in Users |-> IdleProc]
    /\ mode = "interleaved"
    /\ profiles = [u \in Customers |-> NewProfile(EmailVerifiedDefault)]
    /\ tokens = <<>>
    /\ hour = 0
    /\ last_verify = NoVerify
    /\ log = <<>>
    /\ session = LoggedIn

\* the requests are on file, pending, and the staff sessions interleave
InitOffice ==
    /\ weight_in = <<>>
    /\ charge_out = RInt(0)
    /\ calc_pc = "off"
    /\ pickups = [r \in ReqIds |-> NewPickup(Text25kg)]
    /\ history = <<>>
    /\ invoices = <<>>
    /\ today = 1
    /\ clock = 0
    /\ proc = [w \in Users |-> IdleProc]
    /\ mode = "office"
    /\ profiles = [u \in Customers |-> NewProfile(EmailVerifiedDefault)]
    /\ tokens = <<>>
    /\ hour = 0
    /\ last_verify = NoVerify
    /\ log = <<>>
    /\ session = LoggedIn

\* the requests are on file, pending, and no invoice exists yet
InitNumbers ==
    /\ weight_in = <<>>
    /\ charge_out = RInt(0)
    /\ calc_pc = "off"
    /\ pickups \in [ReqIds -> {NewPickup(t) : t \in FiledWeights}]
    /\ history = <<>>
    /\ invoices = <<>>
    /\ today = 1
    /\ clock = 0
    /\ proc = [w \in Users |-> IdleProc]
    /\ mode = "numbers"
    /\ profiles = [u \in Customers |-> NewProfile(EmailVerifiedDefault)]
    /\ tokens = <<>>
    /\ hour = 0
    /\ last_verify = NoVerify
    /\ log = <<>>
    /\ session = LoggedIn

\* registration and e-mail verification: nobody has a profile yet
InitVerify ==
    /\ weight_in = <<>>
    /\ charge_out = RInt(0)
    /\ calc_pc = "off"
    /\ pickups = [r \in ReqIds |-> NoPickup]
    /\ history = <<>>
    /\ invoices = <<>>
    /\ today = 1
    /\ clock = 0
    /\ proc = [w \in Users |-> IdleProc]
    /\ mode = "verify"
    /\ profiles = [u \in Customers |-> NoProfile]
    /\ tokens = <<>>
    /\ hour = 0
    /\ last_verify = NoVerify
    /\ log = <<>>
    /\ session = LoggedIn

InitCharge ==
    /\ weight_in \in WeightValues
    /\ charge_out = RInt(0)
    /\ calc_pc = "input"
    /\ pickups = [r \in ReqIds |-> NoPickup]
    /\ history = <<>>
    /\ invoices = <<>>
    /\ today = 1
    /\ clock = 0
    /\ proc = [w \in Users |-> IdleProc]
    /\ mode = "serial"
    /\ profiles = [u \in Customers |-> NewProfile(EmailVerifiedDefault)]
    /\ tokens = <<>>
    /\ hour = 0
    /\ last_verify = NoVerify
    /\ log = <<>>
    /\ session = LoggedIn

\* one call of calculate_weight_charge on the current text
ComputeCharge ==
    /\ calc_pc = "input"
    /\ charge_out' = calculate_weight_charge(weight_in)
    /\ calc_pc' = "done"
    /\ UNCHANGED <<weight_in, pickups, history, invoices, today, clock, proc, mode, verifyVars, log>>

\* the caller presents another text
NextWeight ==
    /\ calc_pc = "done"
    /\ weight_in' \in WeightValues
    /\ charge_out' = RInt(0)
    /\ calc_pc' = "input"
    /\ UNCHANGED <<pickups, history, invoices, today, clock, proc, mode, verifyVars, log>>

(***************************************************************************)
(* views.pickup_request (POST, valid form): the row is created pending     *)
(***************************************************************************)
\* the user has no profile: error message and redirect to the registration
NotRegistered == [IdleProc EXCEPT !.message = "error", !.page = "register"]

\* the outer except branch: error message, the form is rendered again
SubmitFailed == [IdleProc EXCEPT !.message = "error", !.page = "pickup.html"]

\* success message and redirect to the history page
Submitted == [IdleProc EXCEPT !.message = "success", !.page = "pickup_history"]

\* POST with a valid form: pickup = form.save(commit=False); pickup.save()
Submit(u, weight_text) ==
    /\ proc[u].pc = "idle"
    /\ Quiet
    /\ clock < Budget
    /\ clock' = clock + 1
    /\ log' = LogAtBegin
    /\ IF ~profiles[u].exists
       THEN /\ proc' = [proc EXCEPT ![u] = NotRegistered]
            /\ UNCHANGED pickups
       ELSE \E r \in ReqIds :
              /\ ~pickups[r].exists
              /\ \A q \in ReqIds : q < r => pickups[q].exists
              /\ \/ /\ pickups' = [pickups EXCEPT ![r] = NewPickup(weight_text)]
                    /\ proc' = [proc EXCEPT ![u] =
                          [IdleProc EXCEPT
                              !.pc = "confirm_mail", !.op = "submit",
                              !.via = "form",
                              !.queue = <<[id |-> r,
                                           row |-> NewPickup(weight_text)]>>]]
                 \/ /\ proc' = [proc EXCEPT ![u] = SubmitFailed]
                    /\ UNCHANGED pickups
    /\ UNCHANGED <<chargeVars, history, invoices, today, mode, verifyVars>>

\* the alert is sent whatever became of the confirmation
AfterConfirmationStopsOnFailure(p, outcome) ==
    IF outcome = "failed" THEN SubmitFailed ELSE [p EXCEPT !.pc = "alert_mail"]

AfterConfirmation(p, outcome) == [p EXCEPT !.pc = "alert_mail"]

\* send_customer_request_email: returns True or False, never raises
ConfirmMail(u) ==
    LET p == proc[u]
    IN  /\ p.pc = "confirm_mail"
        /\ \E outcome \in {"sent", "failed"} :
              /\ log' = Noted(LogEntry("confirmation", Head(p.queue).id,
                                             u, FALSE, outcome))
              /\ proc' = [proc EXCEPT ![u] = AfterConfirmation(p, outcome)]
        /\ UNCHANGED <<chargeVars, dbVars, today, clock, mode, verifyVars>>

\* send_admin_notification_email: one message to the staff addresses, none
\* when no active staff user has an address; returns True or False
AlertMail(u) ==
    LET p == proc[u]
    IN  /\ p.pc = "alert_mail"
        /\ \E outcome \in {"sent", "failed", "skipped"} :
              log' = Noted(LogEntry("admin_alert", Head(p.queue).id, u,
                                          FALSE, outcome))
        /\ proc' = [proc EXCEPT ![u] = Submitted]
        /\ UNCHANGED <<chargeVars, dbVars, today, clock, mode, verifyVars>>

\* midnight passes
NextDay ==
    /\ AllIdle
    /\ clock < Budget
    /\ clock' = clock + 1
    /\ today < MaxDay
    /\ today' = today + 1
    /\ UNCHANGED <<chargeVars, dbVars, proc, mode, verifyVars, log>>

(***************************************************************************)
(* accept / reject / complete: the dashboard views, the admin-panel button *)
(* views and the bulk admin actions                                        *)
(***************************************************************************)
\* the text posted with the form: only the dashboard accept and reject forms
\* carry one
PostedNotes(op, via) ==
    IF via = "dashboard" /\ op = "accept" THEN AcceptNotes
    ELSE IF via = "dashboard" /\ op = "reject" THEN RejectReasons
    ELSE {""}

\* the rows a handler is asked for: one request by URL, or the rows ticked in
\* the change list
Selections(via) ==
    LET existing == {r \in ReqIds : pickups[r].exists}
    IN  IF via = "bulk" THEN (SUBSET existing) \ {{}}
        ELSE {{r} : r \in existing}

\* if not request.user.is_staff: redirect to the home page; the admin-panel
\* button views add an error message
NotStaff(via) ==
    [IdleProc EXCEPT !.message = IF via = "button" THEN "error" ELSE "none",
                     !.page = "home"]

\* entry of a handler: the staff check, then the rows are fetched; the bulk
\* actions live in the admin site, which only staff can open
Begin(w, op, via, sel, notes) ==
    /\ proc[w].pc = "idle"
    /\ Solo(w)
    /\ clock < Budget
    /\ sel # {}
    /\ \A r \in sel : pickups[r].exists
    /\ via = "bulk" \/ Cardinality(sel) = 1
    /\ via = "bulk" => w \in Staff
    /\ clock' = clock + 1
    /\ log' = LogAtBegin
    /\ proc' = [proc EXCEPT ![w] =
                  IF ~is_staff(w) THEN NotStaff(via)
                  ELSE [IdleProc EXCEPT
                      !.pc = "save", !.op = op, !.via = via, !.notes = notes,
                      !.queue = [i \in 1..Cardinality(sel) |->
                                   [id |-> Descending(sel)[i],
                                    row |-> pickups[Descending(sel)[i]]]]]]
    /\ UNCHANGED <<chargeVars, dbVars, today, mode, verifyVars>>

\* an exception leaves the handler: error message (views) or error page (bulk)
Failed(p) == [IdleProc EXCEPT !.message = "error"]

\* the handler is done with the current request
FinishItem(p, message, counted) ==
    IF p.via = "bulk"
    THEN LET q == [p EXCEPT !.count = @ + 1,
                            !.email_count = IF counted THEN @ + 1 ELSE @,
                            !.queue = Tail(@), !.inv = NoInvoice,
                            !.old_status = "", !.created = FALSE]
         IN  IF q.queue # <<>> THEN [q EXCEPT !.pc = "save"]
             ELSE [IdleProc EXCEPT !.message = "info", !.count = q.count,
                                   !.email_count = q.email_count,
                                   !.email_sent = q.email_sent]
    ELSE [IdleProc EXCEPT !.message = message, !.email_sent = p.email_sent]

\* old_status = pickup.status; the assignments; pickup.save()
SaveRow(w) ==
    LET p == proc[w]
        r == Head(p.queue).id
        pickup == Head(p.queue).row
        changed == Assigned(p.op, p.via, pickup, p.notes, clock)
    IN  /\ p.pc = "save"
        /\ \/ /\ pickups' = [pickups EXCEPT ![r] = changed]
              /\ proc' = [proc EXCEPT ![w] =
                            [p EXCEPT !.pc = "history",
                                      !.old_status = OldStatus(p.op, pickup),
                                      !.queue[1].row = changed]]
           \/ /\ proc' = [proc EXCEPT ![w] = Failed(p)]
              /\ UNCHANGED pickups
        /\ UNCHANGED <<chargeVars, history, invoices, today, clock, mode, verifyVars, log>>

\* what the handler does once the history entry is written: the acceptance
\* mail with its invoice, the rejection mail, or nothing more
AfterHistorySilent(p) == FinishItem(p, "success", FALSE)

AfterHistory(p) ==
    CASE p.op = "accept" -> [p EXCEPT !.pc = "inv_get"]
      [] p.op = "reject" -> [p EXCEPT !.pc = "reject_mail"]
      [] OTHER -> FinishItem(p, "success", FALSE)

\* RequestStatusHistory.objects.create(...)
CreateHistory(w) ==
    LET p == proc[w]
        r == Head(p.queue).id
        entry == [pickup_request |-> r, old_status |-> p.old_status,
                  new_status |-> TargetStatus(p.op), changed_by |-> w,
                  notes |-> HistoryNotes(p.op, p.via, p.notes),
                  changed_at |-> clock]
    IN  /\ p.pc = "history"
        /\ \/ /\ history' = Append(history, entry)
              /\ proc' = [proc EXCEPT ![w] = AfterHistory(p)]
           \/ /\ proc' = [proc EXCEPT ![w] = Failed(p)]
              /\ UNCHANGED history
        /\ UNCHANGED <<chargeVars, pickups, invoices, today, clock, mode, verifyVars, log>>

Outcome(ok) == IF ok THEN "sent" ELSE "failed"

\* send_rejection_email: returns True or False, never raises
SendRejection(w) ==
    LET p == proc[w]
    IN  /\ p.pc = "reject_mail"
        /\ \E ok \in BOOLEAN :
              /\ proc' = [proc EXCEPT ![w] =
                  FinishItem([p EXCEPT !.email_sent = ok,
                                       !.mails = Append(@,
                                           [kind |-> "rejection",
                                            attachment |-> FALSE, ok |-> ok])],
                             RejectMessage(p.via, ok), TRUE)]
              /\ log' = Noted(LogEntry("rejection", Head(p.queue).id, w,
                                             FALSE, Outcome(ok)))
        /\ UNCHANGED <<chargeVars, dbVars, today, clock, mode, verifyVars>>

(***************************************************************************)
(* send_acceptance_email and generate_invoice_pdf                          *)
(***************************************************************************)
\* an exception inside the attached-send block: the fallback runs; a direct
\* call of generate_invoice_pdf lets it out
Raised(p) ==
    IF p.op = "generate" THEN Failed(p) ELSE [p EXCEPT !.pc = "fallback"]

\* direct call of generate_invoice_pdf(pickup) on a fetched request
BeginGenerate(w, r) ==
    /\ proc[w].pc = "idle"
    /\ Solo(w)
    /\ clock < Budget
    /\ pickups[r].exists
    /\ clock' = clock + 1
    /\ proc' = [proc EXCEPT ![w] =
                  [IdleProc EXCEPT !.pc = "inv_get", !.op = "generate",
                                   !.via = "direct",
                                   !.queue = <<[id |-> r, row |-> pickups[r]]>>]]
    /\ log' = LogAtBegin
    /\ UNCHANGED <<chargeVars, dbVars, today, mode, verifyVars>>

\* generate_invoice_pdf is entered; get_or_create: the lookup by
\* pickup_request
InvoiceGet(w) ==
    LET p == proc[w]
        r == Head(p.queue).id
        found == RowsFor(invoices, r)
    IN  /\ p.pc = "inv_get"
        /\ proc' = [proc EXCEPT ![w] =
              IF Cardinality(found) = 1
              THEN [p EXCEPT !.pc = "inv_save", !.created = FALSE,
                             !.inv = LoadedInvoice(
                                        invoices[CHOOSE i \in found : TRUE])]
              ELSE IF found = {}
              THEN [p EXCEPT !.pc = "inv_number",
                             !.inv = NewInvoice(r, Head(p.queue).row.parcel_weight)]
              ELSE Raised(p)]
        /\ log' = Noted(LogEntry("invoice_build", r, w, FALSE, "called"))
        /\ UNCHANGED <<chargeVars, dbVars, today, clock, mode, verifyVars>>

\* get_or_create: create -> Invoice.save: the number from the day's count,
\* then the totals
InvoiceNumber(w) ==
    LET p == proc[w]
    IN  /\ p.pc = "inv_number"
        /\ proc' = [proc EXCEPT ![w] =
              [p EXCEPT !.pc = "inv_insert",
                        !.inv = Invoice_save(p.inv, invoices, today)]]
        /\ UNCHANGED <<chargeVars, dbVars, today, clock, mode, verifyVars, log>>

\* get_or_create: the INSERT; on an integrity error the lookup is repeated
InvoiceInsert(w) ==
    LET p == proc[w]
        r == Head(p.queue).id
        row == StoredRow([p.inv EXCEPT !.id = NextInvoiceId(invoices)], RoundingMode)
    IN  /\ p.pc = "inv_insert"
        /\ IF PickupTaken(invoices, r)
           THEN /\ proc' = [proc EXCEPT ![w] =
                      IF Cardinality(RowsFor(invoices, r)) = 1
                      THEN [p EXCEPT !.pc = "inv_save", !.created = FALSE,
                                     !.inv = LoadedInvoice(invoices[
                                         CHOOSE i \in RowsFor(invoices, r) : TRUE])]
                      ELSE Raised(p)]
                /\ UNCHANGED invoices
           ELSE IF NumberTaken(invoices, p.inv.invoice_number)
           THEN /\ proc' = [proc EXCEPT ![w] = Raised(p)]
                /\ UNCHANGED invoices
           ELSE /\ invoices' = Append(invoices, row)
                /\ proc' = [proc EXCEPT ![w] =
                      [p EXCEPT !.pc = "inv_save", !.created = TRUE,
                                !.inv.id = row.id]]
        /\ UNCHANGED <<chargeVars, pickups, history, today, clock, mode, verifyVars, log>>

\* invoice.calculate_totals(); invoice.save()
InvoiceSave(w) ==
    LET p == proc[w]
        inv == Invoice_save(calculate_totals(p.inv), invoices, today)
    IN  /\ p.pc = "inv_save"
        /\ invoices' = UpdatedRows(invoices, inv, RoundingMode)
        /\ proc' = [proc EXCEPT ![w] =
              IF p.op = "generate"
              THEN FinishItem([p EXCEPT !.inv = inv], "none", FALSE)
              ELSE [p EXCEPT !.pc = "send", !.inv = inv]]
        /\ UNCHANGED <<chargeVars, pickups, history, today, clock, mode, verifyVars, log>>

\* the except branch of the attached send: the fallback is tried
OnAttachedFailureGiveUp(p) ==
    FinishItem([p EXCEPT !.email_sent = FALSE], AcceptMessage(FALSE), FALSE)

OnAttachedFailure(p) == [p EXCEPT !.pc = "fallback"]

\* the PDF is rendered and the message with the attachment is sent
SendAttached(w) ==
    LET p == proc[w]
        attempt(ok) == [kind |-> "acceptance", attachment |-> TRUE, ok |-> ok]
    IN  /\ p.pc = "send"
        /\ \E outcome \in {"sent", "render_failed", "send_failed"} :
              /\ proc' = [proc EXCEPT ![w] =
                  CASE outcome = "sent" ->
                          FinishItem([p EXCEPT !.email_sent = TRUE,
                                               !.mails = Append(@, attempt(TRUE))],
                                     AcceptMessage(TRUE), TRUE)
                    [] outcome = "send_failed" ->
                          OnAttachedFailure(
                              [p EXCEPT !.mails = Append(@, attempt(FALSE))])
                    [] OTHER -> OnAttachedFailure(p)]
              /\ log' = IF outcome = "render_failed" THEN log
                        ELSE Noted(LogEntry("acceptance", Head(p.queue).id,
                                                  w, TRUE,
                                                  Outcome(outcome = "sent")))
        /\ UNCHANGED <<chargeVars, dbVars, today, clock, mode, verifyVars>>

\* the plain acceptance mail without attachment
SendFallback(w) ==
    LET p == proc[w]
    IN  /\ p.pc = "fallback"
        /\ \E ok \in BOOLEAN :
              /\ proc' = [proc EXCEPT ![w] =
                  FinishItem([p EXCEPT !.email_sent = ok,
                                       !.mails = Append(@,
                                           [kind |-> "acceptance",
                                            attachment |-> FALSE, ok |-> ok])],
                             AcceptMessage(ok), ok)]
              /\ log' = Noted(LogEntry("acceptance", Head(p.queue).id, w,
                                             FALSE, Outcome(ok)))
        /\ UNCHANGED <<chargeVars, dbVars, today, clock, mode, verifyVars>>

(***************************************************************************)
(* admin.InvoiceAdmin change form: base_charge, weight_charge and          *)
(* tax_percentage are editable; saving goes through Invoice.save           *)
(***************************************************************************)
AdminEditInvoice(i, base, weight, pct) ==
    LET inv == [LoadedInvoice(invoices[i]) EXCEPT
                    !.base_charge = FromHundredths(base),
                    !.weight_charge = FromHundredths(weight),
                    !.tax_percentage = FromHundredths(pct)]
    IN  /\ Quiet
        /\ clock < Budget
        /\ clock' = clock + 1
        /\ invoices' = UpdatedRows(invoices,
                                   Invoice_save(inv, invoices, today), RoundingMode)
        /\ log' = LogAtBegin
        /\ UNCHANGED <<chargeVars, pickups, history, today, proc, mode, verifyVars>>

(***************************************************************************)
(* Customer profiles and models.EmailVerification                          *)
(***************************************************************************)
\* the values a caller gives email_verified: none (the field's default) or
\* False
ProfileFlags == {EmailVerifiedDefault, FALSE}

\* the hours by which the clock is moved
AdvanceSteps == {1, TokenHours}

\* CustomerProfile.objects.create(user=..., ...)
CreateProfile(u, flag) ==
    /\ AllIdle
    /\ ~profiles[u].exists
    /\ profiles' = [profiles EXCEPT ![u] = NewProfile(flag)]
    /\ UNCHANGED <<chargeVars, dbVars, today, clock, proc, mode,
                   tokens, hour, last_verify, log, session>>

\* EmailVerification.objects.create(user=..., email=..., token=...)
CreateToken(u) ==
    /\ AllIdle
    /\ Len(tokens) < MaxTokens
    /\ tokens' = Append(tokens, NewToken(u, hour))
    /\ UNCHANGED <<chargeVars, dbVars, today, clock, proc, mode,
                   profiles, hour, last_verify, log, session>>

\* time passes
Advance(dh) ==
    /\ AllIdle
    /\ clock < Budget
    /\ clock' = clock + 1
    /\ hour + dh <= MaxHour
    /\ hour' = hour + dh
    /\ UNCHANGED <<chargeVars, dbVars, today, proc, mode,
                   profiles, tokens, last_verify, log, session>>

\* try: profile = self.user.customer_profile; profile.email_verified = True;
\* profile.save()  except: pass
ProfileVerifiedOrCreated(profile) == [exists |-> TRUE, email_verified |-> TRUE]

ProfileVerified(profile) ==
    IF profile.exists THEN [profile EXCEPT !.email_verified = TRUE] ELSE profile

\* EmailVerification.verify()
Verify(i) ==
    LET token == tokens[i]
    IN  /\ AllIdle
        /\ clock < Budget
        /\ clock' = clock + 1
        /\ IF ~is_token_expired(token, hour)
           THEN /\ tokens' = [tokens EXCEPT ![i] =
                      [token EXCEPT !.is_verified = TRUE, !.verified_at = hour]]
                /\ profiles' = [profiles EXCEPT ![token.user] = ProfileVerified(@)]
                /\ last_verify' = [token |-> i, result |-> TRUE, at |-> clock']
           ELSE /\ last_verify' = [token |-> i, result |-> FALSE, at |-> clock']
                /\ UNCHANGED <<tokens, profiles>>
        /\ UNCHANGED <<chargeVars, dbVars, today, proc, mode, hour, log,
                       session>>

\* the pickup form is rendered
PickupForm == [IdleProc EXCEPT !.page = "pickup.html"]

\* views.pickup_request (GET)
GetPickupForm(u) ==
    /\ proc[u].pc = "idle"
    /\ Quiet
    /\ clock < Budget
    /\ clock' = clock + 1
    /\ log' = LogAtBegin
    /\ proc' = [proc EXCEPT ![u] =
          IF ~profiles[u].exists THEN NotRegistered ELSE PickupForm]
    /\ UNCHANGED <<chargeVars, dbVars, today, mode, verifyVars>>

(***************************************************************************)
(* The admin site's delete view and delete_selected action on a pickup     *)
(* request: its history entries and its invoice go with it (CASCADE)       *)
(***************************************************************************)
DeletePickup(r) ==
    LET Others(row) == row.pickup_request # r
    IN  /\ AllIdle
        /\ clock < Budget
        /\ clock' = clock + 1
        /\ pickups[r].exists
        /\ pickups' = [pickups EXCEPT ![r] = NoPickup]
        /\ history' = SelectSeq(history, Others)
        /\ invoices' = SelectSeq(invoices, Others)
        /\ log' = LogAtBegin
        /\ UNCHANGED <<chargeVars, today, proc, mode, verifyVars>>

Next ==
    \/ \E u \in Customers, t \in SubmittedWeights : Submit(u, t)
    \/ \E u \in Customers : ConfirmMail(u)
    \/ \E u \in Customers : AlertMail(u)
    \/ NextDay
    \/ \E w \in SerialUsers :
          /\ proc[w].pc = "idle"
          /\ clock < Budget
          /\ \E op \in {"accept", "reject", "complete"},
                via \in {"dashboard", "button", "bulk"} :
                \E sel \in Selections(via), notes \in PostedNotes(op, via) :
                    Begin(w, op, via, sel, notes)
    \/ \E w \in Staff : SaveRow(w)
    \/ \E w \in Staff : CreateHistory(w)
    \/ \E w \in Staff : SendRejection(w)
    \/ \E w \in SerialStaff, r \in ReqIds : BeginGenerate(w, r)
    \/ \E w \in Staff : InvoiceGet(w)
    \/ \E w \in Staff : InvoiceNumber(w)
    \/ \E w \in Staff : InvoiceInsert(w)
    \/ \E w \in Staff : InvoiceSave(w)
    \/ \E w \in Staff : SendAttached(w)
    \/ \E w \in Staff : SendFallback(w)
    \/ \E i \in DOMAIN invoices, b \in EditBase, c \in EditWeight, t \in EditPct :
          AdminEditInvoice(i, b, c, t)

\* concurrent acceptances and invoice builds
NextRace ==
    \/ \E u \in Customers, t \in SubmittedWeights : Submit(u, t)
    \/ \E u \in Customers : ConfirmMail(u)
    \/ \E u \in Customers : AlertMail(u)
    \/ \E w \in Staff, r \in ReqIds : Begin(w, "accept", "dashboard", {r}, "")
    \/ \E w \in Staff : SaveRow(w)
    \/ \E w \in Staff : CreateHistory(w)
    \/ \E w \in Staff, r \in ReqIds : BeginGenerate(w, r)
    \/ \E w \in Staff : InvoiceGet(w)
    \/ \E w \in Staff : InvoiceNumber(w)
    \/ \E w \in Staff : InvoiceInsert(w)
    \/ \E w \in Staff : InvoiceSave(w)
    \/ \E w \in Staff : SendAttached(w)
    \/ \E w \in Staff : SendFallback(w)

NextCharge == ComputeCharge \/ NextWeight

\* invoices built and edited one after another, on one day and the next
NextNumbers ==
    \/ NextDay
    \/ \E i \in DOMAIN invoices, b \in EditBase, c \in EditWeight, t \in EditPct :
          AdminEditInvoice(i, b, c, t)
    \/ \E w \in Staff, r \in ReqIds : BeginGenerate(w, r)
    \/ \E w \in Staff : InvoiceGet(w)
    \/ \E w \in Staff : InvoiceNumber(w)
    \/ \E w \in Staff : InvoiceInsert(w)
    \/ \E w \in Staff : InvoiceSave(w)

\* the acceptances of two staff sessions interleave, requests
\* are deleted, midnight passes
NextOffice ==
    \/ NextDay
    \/ \E r \in ReqIds : DeletePickup(r)
    \/ \E w \in Staff, r \in ReqIds : Begin(w, "accept", "dashboard", {r}, "")
    \/ \E w \in Staff : SaveRow(w)
    \/ \E w \in Staff : CreateHistory(w)
    \/ \E w \in Staff : InvoiceGet(w)
    \/ \E w \in Staff : InvoiceNumber(w)
    \/ \E w \in Staff : InvoiceInsert(w)
    \/ \E w \in Staff : InvoiceSave(w)
    \/ \E w \in Staff : SendAttached(w)
    \/ \E w \in Staff : SendFallback(w)

\* profiles, tokens, the pickup form and submissions
NextVerify ==
    \/ \E u \in Customers, flag \in ProfileFlags : CreateProfile(u, flag)
    \/ \E u \in Customers : CreateToken(u)
    \/ \E dh \in AdvanceSteps : Advance(dh)
    \/ \E i \in DOMAIN tokens : Verify(i)
    \/ \E u \in Customers : GetPickupForm(u)
    \/ \E u \in Customers, t \in SubmittedWeights : Submit(u, t)
    \/ \E u \in Customers : ConfirmMail(u)
    \/ \E u \in Customers : AlertMail(u)

\* handlers run one after another
Spec == Init /\ [][Next]_vars

\* handlers of different staff sessions interleave
SpecRace == InitRace /\ [][NextRace]_vars

\* the charge calculator on its own
SpecCharge == InitCharge /\ [][NextCharge]_vars

\* invoice numbering without concurrency
SpecNumbers == InitNumbers /\ [][NextNumbers]_vars

\* interleaved staff sessions over the requests on file
SpecOffice == InitOffice /\ [][NextOffice]_vars

\* e-mail verification and the pickup form
SpecVerify == InitVerify /\ [][NextVerify]_vars


(***************************************************************************)
(* Properties                                                              *)
(***************************************************************************)
LegalTransitions ==
    {<<"pending", "accepted">>, <<"pending", "rejected">>,
     <<"accepted", "completed">>}

CurrentRequest(w) == Head(proc[w].queue).id

\* C1: every status change of a request is pending->accepted,
\* pending->rejected or accepted->completed
C1_OnlyLegalTransitions ==
    [][\A r \in ReqIds :
          pickups'[r].status # pickups[r].status =>
              <<pickups[r].status, pickups'[r].status>> \in LegalTransitions]_vars

\* C2: a call whose save and history creation succeed appends exactly one
\* history entry; its old_status is the status stored when the call overwrote
\* it, its new_status the target, its changed_by the acting staff user; the
\* existing entries stay as they are
C2_OneHistoryEntryPerCall ==
    [][/\ \A w \in Staff :
             (proc[w].pc = "save" /\ proc'[w].pc = "history") =>
                 /\ proc'[w].old_status = pickups[CurrentRequest(w)].status
                 /\ pickups'[CurrentRequest(w)].status = TargetStatus(proc[w].op)
                 /\ history' = history
       /\ \A w \in Staff :
             (proc[w].pc = "history" /\ proc'[w] # proc[w]
                 /\ proc'[w].message # "error") =>
                 /\ Len(history') = Len(history) + 1
                 /\ SubSeq(history', 1, Len(history)) = history
                 /\ history'[Len(history')].pickup_request = CurrentRequest(w)
                 /\ history'[Len(history')].old_status = proc[w].old_status
                 /\ history'[Len(history')].new_status = TargetStatus(proc[w].op)
                 /\ history'[Len(history')].changed_by = w
       /\ history' # history => \E w \in Staff : proc[w].pc = "history"]_vars

C2_Witness ==
    /\ Len(history) >= 2
    /\ history[1].old_status = "pending"
    /\ history[2].pickup_request = history[1].pickup_request
    /\ history[2].old_status = history[1].new_status
    /\ pickups[history[2].pickup_request].status = history[2].new_status

\* C3: once the handlers are done, a request whose status was changed has a
\* history entry for that status
C3_TransitionAtomicWithHistory ==
    AllIdle =>
        \A r \in ReqIds :
            pickups[r].status # "pending" =>
                \E i \in DOMAIN history :
                    /\ history[i].pickup_request = r
                    /\ history[i].new_status = pickups[r].status

\* C4: when the attached send and the fallback send of an acceptance both
\* fail, the request stays accepted, its accepted history entry stays
\* recorded, nothing is undone, and the accept views report a warning
C4_EmailFailureKeepsAcceptance ==
    [][\A w \in Staff :
          (proc[w].pc = "fallback" /\ proc[w].op = "accept"
              /\ proc'[w].pc # "fallback" /\ ~proc'[w].email_sent) =>
              /\ pickups' = pickups
              /\ history' = history
              /\ invoices' = invoices
              /\ pickups'[CurrentRequest(w)].status = "accepted"
              /\ \E i \in DOMAIN history' :
                    /\ history'[i].pickup_request = CurrentRequest(w)
                    /\ history'[i].new_status = "accepted"
                    /\ history'[i].changed_by = w
              /\ proc[w].via \in {"dashboard", "button"} =>
                    proc'[w].message = "warning"]_vars

C4_Witness ==
    \E w \in Staff :
        /\ proc[w].pc = "idle"
        /\ proc[w].message = "warning"
        /\ ~proc[w].email_sent
        /\ history # <<>>
        /\ history[Len(history)].changed_by = w
        /\ history[Len(history)].new_status = "accepted"
        /\ pickups[history[Len(history)].pickup_request].status = "accepted"

\* C5: a pickup request never has more than one invoice row
C5_AtMostOneInvoice ==
    \A r \in ReqIds : Cardinality(RowsFor(invoices, r)) <= 1

\* a second acceptance is about to insert although the first one's row exists
C5_Witness ==
    \E w \in Staff :
        /\ proc[w].pc = "inv_insert"
        /\ Cardinality(RowsFor(invoices, CurrentRequest(w))) = 1

\* C6: generate_invoice_pdf on a request that already has its invoice
\* leaves the invoice row as the previous call left it
C6_RegenerateIsIdempotent ==
    [][\A w \in Staff :
          (proc[w].pc = "inv_save" /\ ~proc[w].created
              /\ proc'[w].pc # "inv_save") => invoices' = invoices]_vars

\* C7 as stated: tax and total satisfy the two equations exactly
C7_TotalsExact ==
    \A i \in DOMAIN invoices :
        LET row == invoices[i]
        IN  /\ row.tax_amount * 10000 =
                  (row.base_charge + row.weight_charge) * row.tax_percentage
            /\ row.total_amount =
                  row.base_charge + row.weight_charge + row.tax_amount

Abs(x) == IF x < 0 THEN 0 - x ELSE x

\* C7: tax and total of every stored invoice satisfy the two equations to
\* within one hundredth, the precision of the columns
C7_TotalsWithinOneHundredth ==
    \A i \in DOMAIN invoices :
        LET row == invoices[i]
        IN  /\ Abs(row.tax_amount * 10000
                   - (row.base_charge + row.weight_charge) * row.tax_percentage)
                  <= 10000
            /\ Abs(row.total_amount
                   - (row.base_charge + row.weight_charge + row.tax_amount)) <= 1

\* a staff edit whose tax does not fall on a whole hundredth
C7_Witness ==
    \E i \in DOMAIN invoices :
        /\ invoices[i].base_charge = 10025
        /\ invoices[i].tax_percentage = 1250
        /\ invoices[i].tax_amount * 10000 #
              (invoices[i].base_charge + invoices[i].weight_charge)
                  * invoices[i].tax_percentage

Numeric(text) == IsString(text) /\ HasNumber(Strip(Lower(text)))

\* C8: a text with a numeric token is charged min(ceil(grams/500)*20, 200)
C8_ChargeIsCeilingTariff ==
    (calc_pc = "done" /\ Numeric(weight_in)) =>
        charge_out = RInt(Tariff(Grams(weight_in)))

\* C9: the invoice created for a request of weight "2.5 kg" has base 100,
\* weight charge 100, tax 36 and total 236
C9_Scenario25kg ==
    [][\A w \in Staff :
          (proc[w].pc = "inv_insert" /\ Len(invoices') = Len(invoices) + 1
              /\ pickups[CurrentRequest(w)].parcel_weight = Text25kg) =>
              LET row == invoices'[Len(invoices')]
              IN  /\ row.base_charge = 10000
                  /\ row.weight_charge = 10000
                  /\ row.tax_amount = 3600
                  /\ row.total_amount = 23600]_vars

\* C10: every result lies in [0, 200], and a weight whose tariff before the
\* cap exceeds 200 is charged exactly 200
C10_ChargeWithinCap ==
    calc_pc = "done" =>
        /\ RLeq(RInt(0), charge_out)
        /\ RLeq(charge_out, RInt(200))
        /\ (Numeric(weight_in)
              /\ Ceil(RDiv(Grams(weight_in), RInt(500))) * 20 > 200)
             => charge_out = RInt(200)

C10_Witness ==
    /\ calc_pc = "done"
    /\ Numeric(weight_in)
    /\ Ceil(RDiv(Grams(weight_in), RInt(500))) * 20 > 200
    /\ charge_out = RInt(200)

\* C11: a value without a numeric token, and a value that is not text, is
\* charged the default 50; the call returns a charge and does not raise
C11_UnparsableGetsDefault ==
    (calc_pc = "done" /\ ~Numeric(weight_in)) => charge_out = RInt(50)

C11_Witness ==
    /\ calc_pc = "done"
    /\ weight_in \in {NotANumber, <<>>, NoneValue}
    /\ charge_out = RInt(50)

(***************************************************************************)
(* Notifications                                                           *)
(***************************************************************************)
\* number of log entries of one kind about request r
Logged(r, what, attachments) ==
    Cardinality({i \in DOMAIN log :
                    /\ log[i].pickup_request = r
                    /\ log[i].what = what
                    /\ log[i].attachment \in attachments})

\* the history entries written by the handler that ran last
LatestEntries == {i \in DOMAIN history : history[i].changed_at = clock}

\* what a handler may log once it has written status and history
OwnNotifications(op) ==
    CASE op = "accept" -> {"invoice_build", "acceptance"}
      [] op = "reject" -> {"rejection"}
      [] OTHER -> {}

\* C12: once a handler is done, each transition it recorded has its own
\* notification and no other: an acceptance one invoice build and one
\* acceptance mail (the attached message, then at most one plain message), a
\* rejection one rejection mail and no invoice build, a completion nothing;
\* a handler logs a notification only when the status and the history entry
\* are already stored, and reject and complete never touch an invoice
C12_EachTransitionItsNotification ==
    /\ [](AllIdle =>
            \A i \in LatestEntries :
                LET r == history[i].pickup_request
                    s == history[i].new_status
                IN  /\ s = "accepted" =>
                          /\ Logged(r, "invoice_build", BOOLEAN) = 1
                          /\ Logged(r, "acceptance", {TRUE}) <= 1
                          /\ Logged(r, "acceptance", {FALSE}) <= 1
                          /\ Logged(r, "acceptance", BOOLEAN) >= 1
                          /\ Logged(r, "rejection", BOOLEAN) = 0
                    /\ s = "rejected" =>
                          /\ Logged(r, "rejection", BOOLEAN) = 1
                          /\ Logged(r, "invoice_build", BOOLEAN) = 0
                          /\ Logged(r, "acceptance", BOOLEAN) = 0
                    /\ s = "completed" =>
                          /\ Logged(r, "rejection", BOOLEAN) = 0
                          /\ Logged(r, "invoice_build", BOOLEAN) = 0
                          /\ Logged(r, "acceptance", BOOLEAN) = 0)
    /\ [][\A w \in Staff :
            /\ (proc[w].op \in {"accept", "reject", "complete"}
                  /\ Len(log') = Len(log) + 1) =>
                  LET e == log'[Len(log')]
                      h == history[Len(history)]
                  IN  /\ e.by = w
                      /\ e.what \in OwnNotifications(proc[w].op)
                      /\ e.pickup_request = CurrentRequest(w)
                      /\ pickups[e.pickup_request].status = TargetStatus(proc[w].op)
                      /\ history # <<>>
                      /\ h.pickup_request = e.pickup_request
                      /\ h.new_status = TargetStatus(proc[w].op)
                      /\ h.changed_by = w
            /\ (proc[w].op \in {"reject", "complete"} /\ proc'[w] # proc[w]) =>
                  invoices' = invoices
            /\ (proc[w].op = "complete" /\ proc'[w] # proc[w]) => log' = log]_vars

\* an acceptance whose attached message failed and whose plain message went out
C12_Witness ==
    /\ AllIdle
    /\ \E i \in LatestEntries :
          /\ history[i].new_status = "accepted"
          /\ Logged(history[i].pickup_request, "invoice_build", BOOLEAN) = 1
          /\ Logged(history[i].pickup_request, "acceptance", {TRUE}) = 1
          /\ Logged(history[i].pickup_request, "acceptance", {FALSE}) = 1

\* C13: send_acceptance_email does not raise; it returns True right after an
\* attached message that was sent; after a failed invoice, attachment or
\* attached send it tries the plain message exactly once and returns whether
\* that message was sent
C13_AcceptanceMailNeverRaises ==
    [][\A w \in Staff :
          LET p == proc[w]
              q == proc'[w]
              r == CurrentRequest(w)
              left == q.pc \notin {"send", "fallback"}
          IN  p.op = "accept" =>
                /\ p.pc \in {"inv_get", "inv_number", "inv_insert", "inv_save",
                             "send", "fallback"} => q.message # "error"
                /\ (p.pc = "send" /\ left) =>
                      /\ q.email_sent
                      /\ log' = Append(log, LogEntry("acceptance", r, w, TRUE, "sent"))
                /\ (p.pc = "send" /\ q.pc = "fallback") =>
                      /\ Logged(r, "acceptance", {FALSE}) = 0
                      /\ \A i \in DOMAIN log' :
                            (log'[i].pickup_request = r
                                /\ log'[i].what = "acceptance") =>
                                log'[i].outcome = "failed"
                /\ (p.pc = "fallback" /\ left) =>
                      /\ Logged(r, "acceptance", {FALSE}) = 0
                      /\ \E ok \in BOOLEAN :
                            /\ log' = Append(log, LogEntry("acceptance", r, w,
                                                           FALSE, Outcome(ok)))
                            /\ q.email_sent = ok]_vars

\* both messages failed and the call returned False
C13_Witness ==
    \E w \in Staff :
        /\ proc[w].pc = "idle"
        /\ ~proc[w].email_sent
        /\ proc[w].message = "warning"
        /\ \E i, j \in DOMAIN log :
              /\ i < j
              /\ log[i] = LogEntry("acceptance", log[i].pickup_request, w, TRUE, "failed")
              /\ log[j] = LogEntry("acceptance", log[i].pickup_request, w, FALSE, "failed")

\* position of the i-th invoice among the invoices numbered for the same day
RankInDay(i) ==
    Cardinality({j \in 1..i : invoices[j].invoice_number.day =
                                  invoices[i].invoice_number.day})

\* C14: without concurrency a new invoice is numbered for today with seq =
\* (invoices already numbered for today) + 1, so the invoices of one day
\* carry 1, 2, 3, ... in creation order and the first invoice of a day
\* carries 1
C14_DailySequence ==
    /\ [][\A w \in Staff :
            (proc[w].pc = "inv_insert" /\ Len(invoices') = Len(invoices) + 1) =>
                LET number == invoices'[Len(invoices')].invoice_number
                IN  /\ number.day = today
                    /\ number.seq = CountForDay(invoices, today) + 1]_vars
    /\ [](\A i \in DOMAIN invoices : invoices[i].invoice_number.seq = RankInDay(i))

\* the first invoice of the second day, after an invoice of the first day
C14_Witness ==
    \E i, j \in DOMAIN invoices :
        /\ i < j
        /\ invoices[i].invoice_number = [day |-> 1, seq |-> 1]
        /\ invoices[j].invoice_number = [day |-> 2, seq |-> 1]

(***************************************************************************)
(* Access, rejection reason, submission                                    *)
(***************************************************************************)
\* the step belongs to a pickup submission of user u
SubmissionStep(u) ==
    \/ proc[u].op = "submit"
    \/ proc'[u].op = "submit"
    \/ proc'[u].page \in {"register", "pickup.html"}

\* C15: an accept, reject or complete request of a user without the staff
\* flag is answered with the redirect to the home page and changes no
\* request, history entry or invoice and sends no mail
C15_OnlyStaffMutate ==
    [][\A u \in Customers :
          (proc'[u] # proc[u] /\ ~SubmissionStep(u)) =>
              /\ proc'[u].pc = "idle"
              /\ proc'[u].page = "home"
              /\ pickups' = pickups
              /\ history' = history
              /\ invoices' = invoices
              /\ \A i \in DOMAIN log' : log'[i].by # u]_vars

\* a customer has tried an admin-panel button on a request that is on file
C15_Witness ==
    \E u \in Customers :
        /\ proc[u].page = "home"
        /\ proc[u].message = "error"
        /\ \E r \in ReqIds : pickups[r].exists /\ pickups[r].status = "pending"
        /\ history = <<>>

\* C16: a rejection stores the reason it was given, unchanged, in the
\* request's admin_notes and in the notes of the history entry it creates
C16_RejectionReasonStored ==
    [][\A w \in Staff :
          (proc[w].op = "reject" /\ proc[w].pc = "history"
              /\ Len(history') = Len(history) + 1) =>
              LET r == CurrentRequest(w)
                  entry == history'[Len(history')]
              IN  /\ entry.pickup_request = r
                  /\ entry.new_status = "rejected"
                  /\ entry.notes = pickups'[r].admin_notes
                  /\ proc[w].via = "dashboard" =>
                        /\ entry.notes = proc[w].notes
                        /\ proc[w].notes \in RejectReasons]_vars

C16_Witness ==
    \E i \in DOMAIN history :
        /\ history[i].new_status = "rejected"
        /\ history[i].notes = "outside service area"
        /\ pickups[history[i].pickup_request].admin_notes = "outside service area"

\* log entries made by user u
LoggedBy(u) == SelectSeq(log, LAMBDA m : m.by = u)

\* C17: a submission stores the request as pending, without history entry,
\* before any mail; then the confirmation and the staff alert are each
\* handed over once, the alert whatever became of the confirmation; the
\* request stays stored and pending and the customer is told of success
C17_SubmissionMailsIndependent ==
    /\ [](\A u \in Customers :
            LET p == proc[u]
                mine == LoggedBy(u)
                Stored(r) ==
                    /\ pickups[r].exists
                    /\ pickups[r].status = "pending"
                    /\ \A i \in DOMAIN history : history[i].pickup_request # r
            IN  /\ p.pc = "confirm_mail" =>
                      Stored(Head(p.queue).id) /\ mine = <<>>
                /\ p.pc = "alert_mail" =>
                      /\ Stored(Head(p.queue).id)
                      /\ Len(mine) = 1
                      /\ mine[1].what = "confirmation"
                      /\ mine[1].pickup_request = Head(p.queue).id
                /\ (p.pc = "idle" /\ mine # <<>>) =>
                      /\ Len(mine) = 2
                      /\ mine[1].what = "confirmation"
                      /\ mine[2].what = "admin_alert"
                      /\ mine[2].pickup_request = mine[1].pickup_request
                      /\ Stored(mine[1].pickup_request)
                      /\ p.message = "success"
                      /\ p.page = "pickup_history")
    /\ [][\A u \in Customers :
            proc'[u].pc = "confirm_mail" /\ proc[u].pc = "idle" =>
                LET r == Head(proc'[u].queue).id
                IN  /\ ~pickups[r].exists
                    /\ pickups'[r].exists
                    /\ pickups'[r].status = "pending"
                    /\ history' = history]_vars

\* the confirmation failed and the alert went out all the same
C17_Witness ==
    \E u \in Customers :
        /\ proc[u].pc = "idle"
        /\ proc[u].message = "success"
        /\ Len(LoggedBy(u)) = 2
        /\ LoggedBy(u)[1].what = "confirmation"
        /\ LoggedBy(u)[1].outcome = "failed"
        /\ LoggedBy(u)[2].what = "admin_alert"
        /\ LoggedBy(u)[2].outcome = "sent"

(***************************************************************************)
(* E-mail verification                                                     *)
(***************************************************************************)
\* the step is a verify() call on token i
VerifyCall(i) == last_verify' # last_verify /\ last_verify'.token = i

C19_AlreadyVerifiedIsRefused ==
    [][\A i \in DOMAIN tokens :
          (VerifyCall(i) /\ tokens[i].is_verified) =>
              /\ last_verify'.result # TRUE
              /\ tokens'[i].is_verified = tokens[i].is_verified
              /\ tokens'[i].verified_at = tokens[i].verified_at]_vars

\* C20: while the profile's email_verified is False the customer gets
\* neither the pickup form nor a stored request
C20_SubmissionGatedOnVerification ==
    [][\A u \in Customers :
          (/\ profiles[u].exists
           /\ ~profiles[u].email_verified
           /\ proc[u].pc = "idle"
           /\ proc'[u] # proc[u]) =>
              /\ proc'[u].page # "pickup.html"
              /\ proc'[u].op # "submit"
              /\ pickups' = pickups]_vars

(***************************************************************************)
(* Invoice numbers under interleaving and deletion                         *)
(***************************************************************************)
\* the invoice rows numbered for the given day
RowsOfDay(day) == {i \in DOMAIN invoices : invoices[i].invoice_number.day = day}

\* C21: the sequence number is the count of the rows written so far for the
\* day plus one, whatever numbers other invoice creations have computed and
\* not yet written; two creations that read the same count get the same
\* number
C21_NumberFromWrittenRows ==
    [][\A w \in Staff :
          (proc[w].pc = "inv_number" /\ proc'[w].pc = "inv_insert") =>
              LET number == [day |-> today,
                             seq |-> Cardinality(RowsOfDay(today)) + 1]
              IN  /\ proc'[w].inv.invoice_number = number
                  /\ \A v \in Staff \ {w} :
                        (/\ proc[v].pc = "inv_insert"
                         /\ proc[v].inv.invoice_number.day = today
                         /\ proc[v].inv.invoice_number.seq
                                = Cardinality(RowsOfDay(today)) + 1) =>
                            proc'[w].inv.invoice_number
                                = proc'[v].inv.invoice_number]_vars

\* two acceptances of different requests hold the same number, and no row
\* with it is written yet
C21_Witness ==
    \E w, v \in Staff :
        /\ w # v
        /\ proc[w].pc = "inv_insert"
        /\ proc[v].pc = "inv_insert"
        /\ proc[w].op = "accept"
        /\ proc[v].op = "accept"
        /\ Head(proc[w].queue).id # Head(proc[v].queue).id
        /\ proc[w].inv.invoice_number = proc[v].inv.invoice_number
        /\ ~NumberTaken(invoices, proc[w].inv.invoice_number)

\* the history entries of request r, oldest first
EntriesOf(r) == SelectSeq(history, LAMBDA h : h.pickup_request = r)

\* each of the staff sessions has run one action to its end, without an
\* exception, and nothing else has happened
Settled ==
    /\ AllIdle
    /\ clock = Cardinality(Staff)
    /\ \A w \in Staff : proc[w].message \notin {"none", "error"}

\* C22: per request each history entry starts from the status the previous
\* entry ended in (pending for the first) and the last entry ends in the
\* stored status, also when two staff actions on the request interleave
C22_HistoryChain ==
    Settled =>
        \A r \in ReqIds :
            LET chain == EntriesOf(r)
            IN  /\ \A i \in DOMAIN chain :
                      chain[i].old_status =
                          IF i = 1 THEN "pending" ELSE chain[i - 1].new_status
                /\ chain # <<>> =>
                      chain[Len(chain)].new_status = pickups[r].status

\* C23: when an acceptance whose invoice build ran has finished, the
\* accepted request has an invoice row
C23_InvoiceExistsAfterAcceptance ==
    [][\A w \in Staff :
          (/\ proc[w].op = "accept"
           /\ proc[w].pc \in {"send", "fallback"}
           /\ proc'[w].pc = "idle") =>
              PickupTaken(invoices', CurrentRequest(w))]_vars

REq(p, q) == RLeq(p, q) /\ RLeq(q, p)

\* C25: after a generate_invoice_pdf call the stored invoice has base_charge
\* 100 and the weight charge calculate_weight_charge gives for the request's
\* parcel_weight, also when the invoice existed before the call
C25_BuildSetsCharges ==
    [][\A w \in Staff :
          (proc[w].pc = "inv_save" /\ proc'[w].pc # "inv_save") =>
              \A i \in DOMAIN invoices' :
                  invoices'[i].pickup_request = CurrentRequest(w) =>
                      /\ REq(FromHundredths(invoices'[i].base_charge),
                             RInt(100))
                      /\ REq(FromHundredths(invoices'[i].weight_charge),
                             calculate_weight_charge(
                                 pickups[CurrentRequest(w)].parcel_weight))]_vars

(***************************************************************************)
(* The charge against the tariff                                           *)
(***************************************************************************)
\* the weights of the tariff table with the charge each is due at least
TariffExamples ==
    {<<Numeral(500) \o <<"g">>, 20>>,
     <<Numeral(1) \o <<"k", "g">>, 40>>,
     <<Numeral(1) \o <<".", "5">> \o <<"k", "g">>, 60>>,
     <<Numeral(2) \o <<"k", "g">>, 80>>,
     <<Numeral(2) \o <<".", "5">> \o <<"k", "g">>, 100>>}

\* C26: for a text denoting a whole number of grams the charge is at least
\* min(20 * ceil(grams / 500), 200); it is at least 20, 40, 60, 80 and 100
\* for 500g, 1kg, 1.5kg, 2kg and 2.5kg
C26_ChargeNotBelowTariff ==
    (calc_pc = "done" /\ Numeric(weight_in)) =>
        /\ Grams(weight_in).d = 1 =>
              RLeq(RInt(Tariff(Grams(weight_in))), charge_out)
        /\ \A ex \in TariffExamples :
              weight_in = ex[1] => RLeq(RInt(ex[2]), charge_out)

\* 2.5kg has been charged
C26_Witness ==
    /\ calc_pc = "done"
    /\ weight_in = Numeral(2) \o <<".", "5">> \o <<"k", "g">>
    /\ Grams(weight_in) = RInt(2500)
    /\ RLeq(RInt(100), charge_out)

(***************************************************************************)
(* The mails a bulk rejection reports                                      *)
(***************************************************************************)
\* the rejection mails of the running action that send_rejection_email sent
RejectionsSent(entries) ==
    {i \in DOMAIN entries : /\ entries[i].what = "rejection"
                            /\ entries[i].outcome = "sent"}

\* C27: the count of mails a bulk rejection reports is the number of
\* requests for which send_rejection_email succeeded
C27_ReportedRejectionMails ==
    [][\A w \in Staff :
          (/\ proc[w].op = "reject" /\ proc[w].via = "bulk"
           /\ proc[w].pc = "reject_mail" /\ proc'[w].pc = "idle")
          => proc'[w].email_count = Cardinality(RejectionsSent(log'))]_vars

(***************************************************************************)
(* reviewed_at and completed_at                                            *)
(***************************************************************************)
\* a null DateTimeField
Unset == NoPickup.reviewed_at

\* C28: accept and reject set reviewed_at and leave completed_at, complete
\* sets completed_at and leaves reviewed_at; an accepted or rejected request
\* has reviewed_at set, a completed one completed_at, a pending one neither
C28_ReviewAndCompletionTimes ==
    /\ [](\A r \in ReqIds : pickups[r].exists =>
            /\ pickups[r].status \in {"accepted", "rejected"}
                  => pickups[r].reviewed_at # Unset
            /\ pickups[r].status = "completed"
                  => pickups[r].completed_at # Unset
            /\ pickups[r].status = "pending"
                  => /\ pickups[r].reviewed_at = Unset
                     /\ pickups[r].completed_at = Unset)
    /\ [][\A w \in Staff :
            (proc[w].pc = "save" /\ proc'[w].pc = "history") =>
                LET r == CurrentRequest(w)
                IN  /\ proc[w].op \in {"accept", "reject"} =>
                          /\ pickups'[r].reviewed_at = clock
                          /\ pickups'[r].completed_at = pickups[r].completed_at
                    /\ proc[w].op = "complete" =>
                          /\ pickups'[r].completed_at = clock
                          /\ pickups'[r].reviewed_at = pickups[r].reviewed_at]_vars

\* a request accepted and later completed carries both times
C28_Witness ==
    \E r \in ReqIds :
        /\ pickups[r].exists
        /\ pickups[r].status = "completed"
        /\ pickups[r].reviewed_at # Unset
        /\ pickups[r].completed_at > pickups[r].reviewed_at
        /\ \E i \in DOMAIN history :
              /\ history[i].pickup_request = r
              /\ history[i].new_status = "accepted"

(***************************************************************************)
(* verify() and the customer profile                                       *)
(***************************************************************************)
\* C29: a successful verify() leaves the user's profile, if there is one,
\* with email_verified set; without a profile it still returns True and
\* marks the token verified, and nothing else changes
C29_VerifyMarksProfile ==
    [][\A i \in DOMAIN tokens :
          (VerifyCall(i) /\ last_verify'.result) =>
              LET u == tokens[i].user
              IN  /\ profiles[u].exists =>
                        /\ profiles'[u].exists
                        /\ profiles'[u].email_verified
                  /\ ~profiles[u].exists =>
                        /\ tokens'[i].is_verified
                        /\ profiles' = profiles
                  /\ \A v \in DOMAIN profiles \ {u} : profiles'[v] = profiles[v]
                  /\ DOMAIN tokens' = DOMAIN tokens
                  /\ \A j \in DOMAIN tokens \ {i} : tokens'[j] = tokens[j]
                  /\ UNCHANGED <<dbVars, proc>>]_vars

\* a token was verified for a user who has no profile
C29_Witness ==
    /\ last_verify.result
    /\ last_verify.token \in DOMAIN tokens
    /\ tokens[last_verify.token].is_verified
    /\ ~profiles[tokens[last_verify.token].user].exists

(***************************************************************************)
(* Navigation: a browser requests a page and follows the redirects it is   *)
(* answered with, until a view renders a template                          *)
(***************************************************************************)
\* the URL names a browser is sent to
NavUrls == {"pickup_request", "register", "user_login"}

\* redirect(url): the browser requests url next
Redirected(p, url) == [p EXCEPT !.pc = "nav", !.page = url]

\* render(request, template, context)
Rendered(p, template) == [p EXCEPT !.pc = "idle", !.page = template]

\* a User row: staff accounts are made on the command line, a customer's
\* account by CustomerRegistrationForm.save together with the profile
AccountExists(u) == is_staff(u) \/ profiles[u].exists

InitNav ==
    /\ weight_in = <<>>
    /\ charge_out = RInt(0)
    /\ calc_pc = "off"
    /\ pickups = [r \in ReqIds |-> NoPickup]
    /\ history = <<>>
    /\ invoices = <<>>
    /\ today = 1
    /\ clock = 0
    /\ proc = [w \in Users |-> IdleProc]
    /\ mode = "navigation"
    /\ profiles = [u \in Users |-> NoProfile]
    /\ tokens = <<>>
    /\ hour = 0
    /\ last_verify = NoVerify
    /\ log = <<>>
    /\ session = [u \in Users |-> FALSE]

navFrame == <<chargeVars, dbVars, today, mode, tokens, hour, last_verify, log>>

\* the user opens a URL in the browser
Navigate(u, url) ==
    /\ proc[u].pc = "idle"
    /\ clock < Budget
    /\ clock' = clock + 1
    /\ proc' = [proc EXCEPT ![u] = Redirected(IdleProc, url)]
    /\ UNCHANGED <<navFrame, profiles, session>>

\* views.pickup_request (GET) behind login_required(login_url='user_login')
ServePickupRequest(u) ==
    /\ proc[u].pc = "nav"
    /\ proc[u].page = "pickup_request"
    /\ proc' = [proc EXCEPT ![u] =
          IF ~session[u] THEN Redirected(@, "user_login")
          ELSE IF ~profiles[u].exists
               THEN Redirected([@ EXCEPT !.message = "error"], "register")
               ELSE Rendered(@, "pickup.html")]
    /\ UNCHANGED <<navFrame, clock, profiles, session>>

\* views.register (GET)
ServeRegister(u) ==
    /\ proc[u].pc = "nav"
    /\ proc[u].page = "register"
    /\ proc' = [proc EXCEPT ![u] =
          IF session[u] THEN Redirected(@, "pickup_request")
          ELSE Rendered(@, "register.html")]
    /\ UNCHANGED <<navFrame, clock, profiles, session>>

\* views.user_login (GET)
ServeLogin(u) ==
    /\ proc[u].pc = "nav"
    /\ proc[u].page = "user_login"
    /\ proc' = [proc EXCEPT ![u] =
          IF session[u] THEN Redirected(@, "pickup_request")
          ELSE Rendered(@, "login.html")]
    /\ UNCHANGED <<navFrame, clock, profiles, session>>

\* views.home
ServeHome(u) ==
    /\ proc[u].pc = "nav"
    /\ proc[u].page = "home"
    /\ proc' = [proc EXCEPT ![u] = Rendered(@, "home.html")]
    /\ UNCHANGED <<navFrame, clock, profiles, session>>

\* views.user_login (POST): authenticate, login, redirect to next page; or
\* the form again with an error
LoginPost(u) ==
    /\ proc[u].pc = "idle"
    /\ proc[u].page = "login.html"
    /\ ~session[u]
    /\ clock < Budget
    /\ clock' = clock + 1
    /\ \/ /\ AccountExists(u)
          /\ session' = [session EXCEPT ![u] = TRUE]
          /\ proc' = [proc EXCEPT ![u] =
                Redirected([IdleProc EXCEPT !.message = "success"],
                           "pickup_request")]
       \/ /\ proc' = [proc EXCEPT ![u] =
                Rendered([IdleProc EXCEPT !.message = "error"], "login.html")]
          /\ UNCHANGED session
    /\ UNCHANGED <<navFrame, profiles>>

\* views.register (POST): form.save() creates the user and the profile, the
\* user is logged in and sent to the pickup form; or the form again with the
\* errors.  The result of send_welcome_email is not used.
RegisterPost(u) ==
    /\ proc[u].pc = "idle"
    /\ proc[u].page = "register.html"
    /\ ~session[u]
    /\ clock < Budget
    /\ clock' = clock + 1
    /\ \/ /\ ~AccountExists(u)
          /\ profiles' = [profiles EXCEPT ![u] = NewProfile(EmailVerifiedDefault)]
          /\ session' = [session EXCEPT ![u] = TRUE]
          /\ proc' = [proc EXCEPT ![u] =
                Redirected([IdleProc EXCEPT !.message = "success"],
                           "pickup_request")]
       \/ /\ proc' = [proc EXCEPT ![u] =
                Rendered([IdleProc EXCEPT !.message = "error"], "register.html")]
          /\ UNCHANGED <<profiles, session>>
    /\ UNCHANGED navFrame

\* views.user_logout
Logout(u) ==
    /\ proc[u].pc = "idle"
    /\ session[u]
    /\ clock < Budget
    /\ clock' = clock + 1
    /\ session' = [session EXCEPT ![u] = FALSE]
    /\ proc' = [proc EXCEPT ![u] =
          Redirected([IdleProc EXCEPT !.message = "success"], "home")]
    /\ UNCHANGED <<navFrame, profiles>>

NextNav ==
    \/ \E u \in Users, url \in NavUrls : Navigate(u, url)
    \/ \E u \in Users : ServePickupRequest(u)
    \/ \E u \in Users : ServeRegister(u)
    \/ \E u \in Users : ServeLogin(u)
    \/ \E u \in Users : ServeHome(u)
    \/ \E u \in Users : LoginPost(u)
    \/ \E u \in Users : RegisterPost(u)
    \/ \E u \in Users : Logout(u)

\* the server answers every request and the browser follows every redirect
NavFairness ==
    \A u \in Users :
        /\ WF_vars(ServePickupRequest(u))
        /\ WF_vars(ServeRegister(u))
        /\ WF_vars(ServeLogin(u))
        /\ WF_vars(ServeHome(u))

SpecNav == InitNav /\ [][NextNav]_vars /\ NavFairness

\* C30: a request for the pickup-request page ends in a rendered page after
\* finitely many redirects, also for a logged-in user without a profile
C30_NavigationEnds ==
    \A u \in Users :
        (proc[u].pc = "nav" /\ proc[u].page = "pickup_request")
            ~> (proc[u].pc = "idle")

====
